---- MODULE Spec2Model ----
(***************************************************************************)
(* ai_docfix: the declaration-scan -> context-extraction ->               *)
(* text-normalization -> patch-insertion pipeline.                         *)
(*                                                                         *)
(* Text is a sequence of glyphs.  A glyph is one character, except "H",    *)
(* which stands for one of the section-header words of validator.py        *)
(* ("Args", 4 characters wide), and "Q", which stands for a triple quote   *)
(* (3 characters wide).  "NL" is the newline character.                    *)
(***************************************************************************)
EXTENDS Integers, Sequences, FiniteSets, TLC

VARIABLES
    \* process_file / main (hook.py)
    disk,                \* the file on disk: a sequence of lines
    original,            \* the text read at the start of the run, as lines
    lines,               \* the line buffer of the run
    scan,                \* what find_doc_issues returned in this run
    issues,              \* the sorted Issues not yet processed
    successful_updates,
    pc,                  \* "idle", "loop", "finish"
    ret,                 \* what the last process_file call returned:
                         \* "True", "False", or "none" while it runs
    run,                 \* number of process_file calls started
    log,                 \* one record per Issue processed, all runs
    reports,             \* number of warnings / errors printed
    \* wrap_docstring (validator.py) taken alone
    docstring, max_length, groups, wrapped, wpc,
    \* main (hook.py)
    todo,                \* the files main has still to go through
    fs,                  \* the file system: what is at each path
    path,                \* the path main is at
    changed,
    mainret,             \* "none" while main runs, then "0", "1", or
                         \* "raise" when an exception left main
    mpc,                 \* "off", "loop", "call", "done"
    visited              \* per file main is through with: what happened

fvars == <<disk, original, lines, scan, issues, successful_updates, pc, ret,
           run, log, reports>>
wvars == <<docstring, max_length, groups, wrapped, wpc>>
mvars == <<todo, fs, path, changed, mainret, mpc, visited>>
vars == <<fvars, wvars, mvars>>

\* ------------------------------------------------------------------ bounds
MaxTextLen == 6       \* glyphs in a raw text handed to wrap_docstring
MinWidth == 5         \* smallest max_length handed to wrap_docstring
MaxWidth == 9         \* largest max_length handed to wrap_docstring
MaxFileLen == 4       \* lines in a source file on disk before the first run
MaxBrokenLen == 2     \* lines in a file on disk that does not parse
MaxIndent == 2        \* deepest indentation level (4 spaces each) in a file
MaxRuns == 2          \* consecutive runs of process_file on the same file
MaxMainLen == 2       \* lines in a file of a list of files handed to main

\* --------------------------------------------------------- string helpers
GlyphWidth(c) == IF c = "H" THEN 4 ELSE IF c = "Q" THEN 3 ELSE 1

RECURSIVE StrLen(_)
StrLen(s) == IF s = <<>> THEN 0 ELSE GlyphWidth(Head(s)) + StrLen(Tail(s))

IsSpace(c) == c \in {" ", "NL"}

Spaces(n) == [i \in 1..n |-> " "]

RECURSIVE LStrip(_)
LStrip(s) == IF s # <<>> /\ IsSpace(Head(s)) THEN LStrip(Tail(s)) ELSE s

RECURSIVE RStrip(_)
RStrip(s) ==
    IF s # <<>> /\ IsSpace(s[Len(s)]) THEN RStrip(SubSeq(s, 1, Len(s) - 1)) ELSE s

\* str.strip()
Strip(s) == RStrip(LStrip(s))

\* number of leading blanks of a line
RECURSIVE LeadingSpaces(_)
LeadingSpaces(s) ==
    IF s # <<>> /\ Head(s) = " " THEN 1 + LeadingSpaces(Tail(s)) ELSE 0

\* str.split("\n"): always at least one (possibly empty) line
RECURSIVE SplitLines(_)
SplitLines(s) ==
    IF \A i \in 1..Len(s) : s[i] # "NL"
    THEN <<s>>
    ELSE LET p == CHOOSE i \in 1..Len(s) :
                      s[i] = "NL" /\ \A j \in 1..(i - 1) : s[j] # "NL"
         IN <<SubSeq(s, 1, p - 1)>> \o SplitLines(SubSeq(s, p + 1, Len(s)))

\* "\n".join(lines)
RECURSIVE JoinLines(_)
JoinLines(ls) ==
    IF ls = <<>> THEN <<>>
    ELSE IF Len(ls) = 1 THEN ls[1]
    ELSE ls[1] \o <<"NL">> \o JoinLines(Tail(ls))

RECURSIVE Concat(_)
Concat(ss) == IF ss = <<>> THEN <<>> ELSE Head(ss) \o Concat(Tail(ss))

\* ------------------------------------------------- validator.py: textwrap
\* TextWrapper._split with break_on_hyphens=False: maximal runs of blanks and
\* maximal runs of non-blanks, in order.
RECURSIVE SplitChunks(_)
SplitChunks(s) ==
    IF s = <<>> THEN <<>>
    ELSE LET ws == (Head(s) = " ")
             n == CHOOSE k \in 1..Len(s) :
                      /\ \A j \in 1..k : (s[j] = " ") = ws
                      /\ (k = Len(s) \/ (s[k + 1] = " ") # ws)
         IN <<SubSeq(s, 1, n)>> \o SplitChunks(SubSeq(s, n + 1, Len(s)))

\* a chunk-dropping test that does not look at the chunk
IsWsChunkAny(c) == c # <<>>

IsWsChunk(c) == c # <<>> /\ c[1] = " "

\* a line-filling loop that lets a line run one character over
RECURSIVE NFitOver(_, _, _)
NFitOver(chunks, cur_len, width) ==
    IF chunks # <<>> /\ cur_len + StrLen(Head(chunks)) <= width + 1
    THEN 1 + NFitOver(Tail(chunks), cur_len + StrLen(Head(chunks)), width)
    ELSE 0

\* how many leading chunks the inner loop of _wrap_chunks puts on a line
RECURSIVE NFit(_, _, _)
NFit(chunks, cur_len, width) ==
    IF chunks # <<>> /\ cur_len + StrLen(Head(chunks)) <= width
    THEN 1 + NFit(Tail(chunks), cur_len + StrLen(Head(chunks)), width)
    ELSE 0

\* TextWrapper._handle_long_word with break_long_words=False: the chunk that
\* fits on no line is put on the current line only if that line is empty.
HandleLongWord(rest, cur_line) ==
    IF cur_line = <<>> THEN <<Head(rest)>> ELSE cur_line

\* TextWrapper._wrap_chunks (max_lines None, drop_whitespace True)
RECURSIVE WrapChunks(_, _, _, _, _)
WrapChunks(chunks, acc, width, initial_indent, subsequent_indent) ==
    IF chunks = <<>> THEN acc
    ELSE LET indent == IF acc # <<>> THEN subsequent_indent ELSE initial_indent
             w == width - indent
             c1 == IF IsWsChunk(Head(chunks)) /\ acc # <<>>
                   THEN Tail(chunks) ELSE chunks
             k == NFit(c1, 0, w)
             taken == SubSeq(c1, 1, k)
             rest == SubSeq(c1, k + 1, Len(c1))
             long == rest # <<>> /\ StrLen(Head(rest)) > w
             cur == IF long THEN HandleLongWord(rest, taken) ELSE taken
             rest2 == IF long /\ Len(cur) > Len(taken) THEN Tail(rest) ELSE rest
             cur2 == IF cur # <<>> /\ IsWsChunk(cur[Len(cur)])
                     THEN SubSeq(cur, 1, Len(cur) - 1) ELSE cur
             acc2 == IF cur2 # <<>>
                     THEN Append(acc, Spaces(indent) \o Concat(cur2))
                     ELSE acc
         IN WrapChunks(rest2, acc2, width, initial_indent, subsequent_indent)

\* textwrap.fill(...): the wrapped lines of one stripped input line
Fill(stripped, width, initial_indent, subsequent_indent) ==
    WrapChunks(SplitChunks(stripped), <<>>, width, initial_indent, subsequent_indent)

\* ------------------------------------------- validator.py: wrap_docstring
\* section_header_pattern.match(stripped): a header word, optional blanks,
\* a colon, and nothing else
IsHeader(stripped) ==
    /\ Len(stripped) >= 2
    /\ stripped[1] = "H"
    /\ stripped[Len(stripped)] = ":"
    /\ \A i \in 2..(Len(stripped) - 1) : stripped[i] = " "

BaseIndent(in_section) == IF in_section THEN 4 ELSE 0

\* a hanging indent that forgets the extra level
SubsequentIndentFlat(in_section) == BaseIndent(in_section)

SubsequentIndent(in_section) ==
    IF in_section THEN BaseIndent(in_section) + 4 ELSE BaseIndent(in_section)

\* one iteration of the loop over the lines: what is appended to
\* wrapped_lines (as a sequence of physical lines) for this input line
WrapLine(line, in_section, width) ==
    LET stripped == Strip(line) IN
    IF stripped = <<>> THEN << <<>> >>
    ELSE IF IsHeader(stripped) THEN <<stripped>>
    ELSE Fill(stripped, width, BaseIndent(in_section),
              SubsequentIndent(in_section))

\* a flag that a blank line resets
NextInSectionReset(line, in_section) ==
    IsHeader(Strip(line)) \/ (in_section /\ Strip(line) # <<>>)

\* the in_section flag after the line has been processed
NextInSection(line, in_section) == in_section \/ IsHeader(Strip(line))

\* the loop of wrap_docstring: one record per input line, with the value of
\* in_section the line was formatted under and the lines emitted for it
RECURSIVE WrapGroups(_, _, _)
WrapGroups(ls, in_section, width) ==
    IF ls = <<>> THEN <<>>
    ELSE <<[src |-> Head(ls),
            sec |-> in_section,
            out |-> WrapLine(Head(ls), in_section, width)]>>
         \o WrapGroups(Tail(ls), NextInSection(Head(ls), in_section), width)

RECURSIVE GroupLines(_)
GroupLines(gs) == IF gs = <<>> THEN <<>> ELSE Head(gs).out \o GroupLines(Tail(gs))

wrap_docstring(text, width) ==
    JoinLines(GroupLines(WrapGroups(SplitLines(text), FALSE, width)))

\* --------------------------------------------------------- source files
\* A file is a sequence of lines.  A line is a record: k its kind, ind the
\* width of its leading whitespace, s its text when it is documentation
\* text.  Kinds of lines:
\*   "def"      a whole declaration header on one line:  def f(x):  class C:
\*   "defstr"   first line of a header left open after a string literal:
\*              def f(x="a"
\*   "defcomma" first line of a header left open after a comma:  def f(a,
\*   "sigend"   the line closing an open header:  ):
\*   "stmt"     a simple statement:  pass
\*   "q3"       a line holding only a triple quote
\*   "txt"      a line of documentation text
\*   "blank"    an empty line
CodeLine(k, ind) == [k |-> k, ind |-> ind, s |-> <<>>]
Blank == [k |-> "blank", ind |-> 0, s |-> <<>>]
TextLine(ind, s) == [k |-> "txt", ind |-> ind, s |-> s]

\* ------------------------------------------------- parser.py: ast.parse
ParseStart ==
    [mode |-> "code", stack |-> <<0>>, expect |-> FALSE, pend |-> 0,
     sig |-> 0, last |-> "str", ok |-> TRUE, undoc |-> {}]

ParseFail(st) == [st EXCEPT !.ok = FALSE]

\* the indentation stack after a statement at indentation ind; <<>> when
\* the tokenizer rejects the indentation
Reindent(st, ind) ==
    LET top == st.stack[Len(st.stack)] IN
    IF st.expect
    THEN IF ind > top THEN Append(st.stack, ind) ELSE <<>>
    ELSE IF ind > top THEN <<>>
    ELSE IF \E j \in 1..Len(st.stack) : st.stack[j] = ind
    THEN SubSeq(st.stack, 1, CHOOSE j \in 1..Len(st.stack) : st.stack[j] = ind)
    ELSE <<>>

\* a scanner that reports the declaration whatever its body starts with
UndocumentedAll(st, ln) ==
    IF st.pend # 0 THEN st.undoc \cup {st.pend} ELSE st.undoc

\* a statement starts: the declaration whose body it opens has no
\* documentation string unless the statement is a string literal
Undocumented(st, ln) ==
    IF st.pend # 0 /\ ln.k # "q3" THEN st.undoc \cup {st.pend} ELSE st.undoc

\* the parser reads line number i (1-based)
ParseLine(st, ln, i) ==
    IF ~st.ok THEN st
    ELSE IF st.mode = "str"
    THEN IF ln.k = "q3" THEN [st EXCEPT !.mode = "code"] ELSE st
    ELSE IF st.mode = "pstr"
    THEN IF ln.k = "q3" THEN [st EXCEPT !.mode = "paren", !.last = "str"] ELSE st
    ELSE IF st.mode = "paren"
    THEN IF ln.k = "blank" THEN st
         ELSE IF ln.k = "q3"
         THEN IF st.last = "str" THEN [st EXCEPT !.mode = "pstr"] ELSE ParseFail(st)
         ELSE IF ln.k = "sigend"
         THEN [st EXCEPT !.mode = "code", !.expect = TRUE, !.pend = st.sig,
                         !.sig = 0]
         ELSE ParseFail(st)
    ELSE IF ln.k = "blank" THEN st
    ELSE IF ln.k \in {"txt", "sigend"} \/ Reindent(st, ln.ind) = <<>>
    THEN ParseFail(st)
    ELSE LET st1 == [st EXCEPT !.stack = Reindent(st, ln.ind),
                               !.undoc = Undocumented(st, ln),
                               !.pend = 0, !.expect = FALSE]
         IN IF ln.k = "def" THEN [st1 EXCEPT !.pend = i, !.expect = TRUE]
            ELSE IF ln.k = "defstr"
            THEN [st1 EXCEPT !.mode = "paren", !.sig = i, !.last = "str"]
            ELSE IF ln.k = "defcomma"
            THEN [st1 EXCEPT !.mode = "paren", !.sig = i, !.last = "comma"]
            ELSE IF ln.k = "q3" THEN [st1 EXCEPT !.mode = "str"]
            ELSE st1

RECURSIVE ParseFrom(_, _, _)
ParseFrom(st, file, i) ==
    IF i > Len(file) THEN st ELSE ParseFrom(ParseLine(st, file[i], i), file, i + 1)

\* ast.parse: TRUE iff no SyntaxError
ParseOk(file) ==
    LET st == ParseFrom(ParseStart, file, 1)
    IN st.ok /\ st.mode = "code" /\ ~st.expect

\* a scanner that does not notice the SyntaxError and reports what it saw
find_doc_issues_unchecked(file) ==
    [warned |-> FALSE, starts |-> ParseFrom(ParseStart, file, 1).undoc]

\* parser.py: the start lines of the Issues find_doc_issues returns, and
\* whether it printed a syntax warning
find_doc_issues(file) ==
    IF ParseOk(file)
    THEN [warned |-> FALSE, starts |-> ParseFrom(ParseStart, file, 1).undoc]
    ELSE [warned |-> TRUE, starts |-> {}]

\* ------------------------------------ hook.py: extract_function_signature
\* lines[i].strip().endswith(":") and not ...startswith("#")
EndsSignature(ln) ==
    \/ ln.k \in {"def", "sigend"}
    \/ ln.k = "txt" /\ Strip(ln.s) # <<>> /\ Strip(ln.s)[Len(Strip(ln.s))] = ":"

\* lines[start] raises IndexError
ExtractRaises(ls, line_no) == line_no >= Len(ls) \/ line_no < 0 - Len(ls)

\* 0-based index of the first line after the collected signature
RECURSIVE SignatureEnd(_, _, _)
SignatureEnd(ls, start, i) ==
    IF i < Len(ls) /\ i < start + 5
    THEN IF EndsSignature(ls[i + 1]) THEN i + 1 ELSE SignatureEnd(ls, start, i + 1)
    ELSE i

\* the lines between the two markers (line_no is 0-based; a negative
\* line_no counts from the end, as Python indexing does)
extract_function_signature(ls, line_no) ==
    LET first == IF line_no < 0 THEN line_no + Len(ls) ELSE line_no
        i == SignatureEnd(ls, line_no, line_no + 1)
        sig == <<ls[first + 1]>> \o
               (IF line_no + 1 >= 0 THEN SubSeq(ls, line_no + 2, i) ELSE <<>>)
    IN IF i >= 0 /\ i < Len(ls) THEN Append(sig, ls[i + 1]) ELSE sig

\* --------------------------------------- llm.py: generate_docstring
\* What one call can do: return None, return an empty text, raise, or return
\* a text.  The texts are at least 10 characters wide (llm.py returns None
\* for anything shorter).
DocSummary == <<"a", "H", "H", "a">>
DocSections == <<"a", "a", "NL", "NL", "H", ":", "NL", "a", ":", " ", "a">>
DocQuoted == <<"Q", "a", "H", "H", "a", "NL", "Q">>
RawDocs == {DocSummary, DocSections, DocQuoted}
GenOutcomes ==
    {[k |-> x, text |-> <<>>] : x \in {"None", "Empty", "Raise"}}
    \cup {[k |-> "Text", text |-> t] : t \in RawDocs}

\* ------------------------------------------- patcher: insert_docstring
\* leading whitespace of a line
LineIndent(ln) == IF ln.k = "blank" THEN 0 ELSE ln.ind

\* a block rendered at the indentation of the declaration itself
RenderBlockFlat(doc, base) ==
    LET dl == SplitLines(doc) IN
    <<CodeLine("q3", base - 4)>>
    \o [j \in 1..Len(dl) |->
          IF Strip(dl[j]) = <<>> THEN Blank ELSE TextLine(base - 4, dl[j])]
    \o <<CodeLine("q3", base - 4), Blank>>

\* the block: open delimiter, the text lines, close delimiter, one blank
\* line, every non-empty one at the base indent
RenderBlock(doc, base) ==
    LET dl == SplitLines(doc) IN
    <<CodeLine("q3", base)>>
    \o [j \in 1..Len(dl) |->
          IF Strip(dl[j]) = <<>> THEN Blank ELSE TextLine(base, dl[j])]
    \o <<CodeLine("q3", base), Blank>>

\* a splice that puts the block before the declaration line
SpliceBefore(ls, d, block) ==
    [j \in 1..(Len(ls) + Len(block)) |->
        IF j <= d THEN ls[j]
        ELSE IF j <= d + Len(block) THEN block[j - d]
        ELSE ls[j - Len(block)]]

\* lines[0..=d] + block + lines[d+1..]   (d is 0-based)
Splice(ls, d, block) ==
    [j \in 1..(Len(ls) + Len(block)) |->
        IF j <= d + 1 THEN ls[j]
        ELSE IF j <= d + 1 + Len(block) THEN block[j - (d + 1)]
        ELSE ls[j - Len(block)]]

ValidIndex(ls, d) == d >= 0 /\ d < Len(ls)

insert_docstring(ls, d, doc) ==
    IF ~ValidIndex(ls, d)
    THEN [ok |-> FALSE, lines |-> ls, block |-> <<>>]
    ELSE LET block == RenderBlock(doc, LineIndent(ls[d + 1]) + 4)
         IN [ok |-> TRUE, lines |-> Splice(ls, d, block), block |-> block]

\* ------------------------------------------------ hook.py: process_file
LineWidth == 72

StartsWithQuotes(t) == t # <<>> /\ t[1] = "Q"
EndsWithQuotes(t) == t # <<>> /\ t[Len(t)] = "Q"

\* the cleanup without its two strip() calls
CleanDocNoStrip(doc) ==
    LET b == IF StartsWithQuotes(doc) THEN Tail(doc) ELSE doc
    IN IF EndsWithQuotes(b) THEN SubSeq(b, 1, Len(b) - 1) ELSE b

\* hook.py lines 108-113
CleanDoc(doc) ==
    LET a == Strip(doc)
        b == IF StartsWithQuotes(a) THEN Tail(a) ELSE a
        c == IF EndsWithQuotes(b) THEN SubSeq(b, 1, Len(b) - 1) ELSE b
    IN Strip(c)

\* the orders in which ast.walk can hand over a set of start lines
Orders(S) ==
    {f \in [1..Cardinality(S) -> S] :
        \A i, j \in 1..Cardinality(S) : i # j => f[i] # f[j]}

\* the insertion step of a sort with the comparison turned round
RECURSIVE InsertAsc(_, _)
InsertAsc(sorted, x) ==
    IF sorted = <<>> THEN <<x>>
    ELSE IF Head(sorted) <= x THEN <<Head(sorted)>> \o InsertAsc(Tail(sorted), x)
    ELSE <<x>> \o sorted

\* issues.sort(key=start_line, reverse=True): stable, descending
RECURSIVE InsertDesc(_, _)
InsertDesc(sorted, x) ==
    IF sorted = <<>> THEN <<x>>
    ELSE IF Head(sorted) >= x THEN <<Head(sorted)>> \o InsertDesc(Tail(sorted), x)
    ELSE <<x>> \o sorted

\* the sort without reverse=True: ascending
RECURSIVE SortForward(_)
SortForward(sq) ==
    IF sq = <<>> THEN <<>>
    ELSE LET m == CHOOSE i \in 1..Len(sq) : \A j \in 1..Len(sq) : sq[i] <= sq[j]
         IN <<sq[m]>> \o SortForward(SubSeq(sq, 1, m - 1) \o SubSeq(sq, m + 1, Len(sq)))

\* no sort at all: the Issues in the order ast.walk handed them over
SortNone(sq) == sq

RECURSIVE SortReverse(_)
SortReverse(sq) ==
    IF sq = <<>> THEN <<>>
    ELSE InsertDesc(SortReverse(SubSeq(sq, 1, Len(sq) - 1)), sq[Len(sq)])

\* --------------------------------------------------- files on disk
Indents == {4 * i : i \in 0..MaxIndent}

LineAlphabet ==
    {CodeLine(k, ind) :
        k \in {"def", "defstr", "defcomma", "sigend", "stmt", "q3"},
        ind \in Indents}
    \cup {Blank}

\* Inside a string or an open bracket neither the indentation nor, in a
\* string, the kind of a line matters to any operation: files are
\* enumerated with such lines at column 0, and with strings holding blank
\* lines only.
Canonical(g, ln) ==
    LET mode == ParseFrom(ParseStart, g, 1).mode IN
    /\ mode \in {"str", "pstr"} => ln \in {CodeLine("q3", 0), Blank}
    /\ mode = "paren" => ln \in {CodeLine("q3", 0), CodeLine("sigend", 0), Blank}

Extensions(n, prefixes) ==
    {f \in {Append(g, ln) : g \in prefixes, ln \in LineAlphabet} :
        Canonical(SubSeq(f, 1, n - 1), f[n])}

\* the sequences of n lines the parser reads without an error
RECURSIVE ViablePrefixes(_)
ViablePrefixes(n) ==
    IF n = 0 THEN {<<>>}
    ELSE {f \in Extensions(n, ViablePrefixes(n - 1)) : ParseFrom(ParseStart, f, 1).ok}

\* the files of at most MaxFileLen lines that parse, and the files of at
\* most MaxBrokenLen lines whose last line, or whose end, is a syntax error
Files ==
    UNION {{f \in Extensions(n, ViablePrefixes(n - 1)) :
               ParseOk(f) \/ n <= MaxBrokenLen} :
              n \in 1..MaxFileLen}

NoLog == <<>>
NoScan == [called |-> FALSE, warned |-> FALSE, starts |-> {}]

WrapIdle ==
    /\ docstring = <<>> /\ max_length = LineWidth /\ groups = <<>>
    /\ wrapped = <<>> /\ wpc = "off"

MainIdle ==
    /\ todo = <<>> /\ fs = <<>> /\ path = "" /\ changed = FALSE
    /\ mainret = "none" /\ mpc = "off" /\ visited = <<>>

Init ==
    /\ disk \in Files
    /\ original = <<>>
    /\ lines = <<>>
    /\ scan = NoScan
    /\ issues = <<>>
    /\ successful_updates = 0
    /\ pc = "idle"
    /\ ret = "none"
    /\ run = 0
    /\ log = NoLog
    /\ reports = 0
    /\ WrapIdle
    /\ MainIdle

\* hook.py 166-177: main asks for the commit to be made again, and so for
\* another run on the same file, when process_file returned True
Recommit == run = 0 \/ ret = "True"

\* hook.py 68-82: read the file, scan it, sort the Issues
ProcessFileStart ==
    /\ pc = "idle"
    /\ run < MaxRuns
    /\ Recommit
    /\ run' = run + 1
    /\ \E readable \in BOOLEAN :
         IF ~readable
         THEN /\ ret' = "False"
              /\ reports' = reports + 1
              /\ scan' = NoScan
              /\ UNCHANGED <<original, lines, issues, successful_updates, pc>>
         ELSE LET r == find_doc_issues(disk) IN
              /\ scan' = [called |-> TRUE, warned |-> r.warned, starts |-> r.starts]
              /\ original' = disk
              /\ lines' = disk
              /\ successful_updates' = 0
              /\ reports' = reports + (IF r.warned THEN 1 ELSE 0)
              /\ IF r.starts = {}
                 THEN /\ issues' = <<>>
                      /\ ret' = "False"
                      /\ pc' = "idle"
                 ELSE /\ \E order \in Orders(r.starts) :
                            issues' = SortReverse(order)
                      /\ ret' = "none"
                      /\ pc' = "loop"
    /\ UNCHANGED <<disk, log, wvars, mvars>>

\* an iteration without the "if not doc" test: an unusable answer is
\* inserted as an empty text
IssueStepNoCheck(ls, start_line, gen) ==
    IF ExtractRaises(ls, start_line - 1) \/ gen.k = "Raise"
    THEN [res |-> "failed", lines |-> ls, doc |-> <<>>, block |-> <<>>]
    ELSE LET doc == wrap_docstring(CleanDoc(gen.text), LineWidth)
             r == insert_docstring(ls, start_line - 1, doc)
         IN IF r.ok
            THEN [res |-> "inserted", lines |-> r.lines, doc |-> doc,
                  block |-> r.block]
            ELSE [res |-> "failed", lines |-> ls, doc |-> <<>>, block |-> <<>>]

\* hook.py 89-91: the window handed to the backend, <<>> when the call raises
Context(ls, line_no) ==
    IF ExtractRaises(ls, line_no) THEN <<>>
    ELSE extract_function_signature(ls, line_no)

\* what one iteration of the loop (hook.py 86-129) does to the buffer when
\* the backend's answer is gen
IssueStep(ls, start_line, gen) ==
    IF ExtractRaises(ls, start_line - 1) \/ gen.k = "Raise"
    THEN [res |-> "failed", lines |-> ls, doc |-> <<>>, block |-> <<>>]
    ELSE IF gen.k \in {"None", "Empty"}
    THEN [res |-> "skipped", lines |-> ls, doc |-> <<>>, block |-> <<>>]
    ELSE LET doc == wrap_docstring(CleanDoc(gen.text), LineWidth)
             r == insert_docstring(ls, start_line - 1, doc)
         IN IF r.ok
            THEN [res |-> "inserted", lines |-> r.lines, doc |-> doc,
                  block |-> r.block]
            ELSE [res |-> "failed", lines |-> ls, doc |-> <<>>, block |-> <<>>]

\* the loop after an iteration that raised: break instead of continue
RemainingBreak(iss, res) == IF res = "failed" THEN <<>> ELSE Tail(iss)

\* the Issues left after an iteration: the loop continues whatever happened
Remaining(iss, res) == Tail(iss)

\* hook.py 86-129: one iteration of the loop over the Issues
ProcessIssue ==
    /\ pc = "loop"
    /\ issues # <<>>
    /\ \E gen \in GenOutcomes :
         LET st == IssueStep(lines, Head(issues), gen) IN
         /\ lines' = st.lines
         /\ successful_updates' =
                successful_updates + (IF st.res = "inserted" THEN 1 ELSE 0)
         /\ reports' = reports + (IF st.res = "inserted" THEN 0 ELSE 1)
         /\ log' = Append(log, [run |-> run, start |-> Head(issues),
                                genfail |-> (gen.k # "Text"), res |-> st.res,
                                before |-> lines, after |-> st.lines,
                                doc |-> st.doc, block |-> st.block,
                                ctx |-> Context(lines, Head(issues) - 1)])
         /\ issues' = Remaining(issues, st.res)
         /\ pc' = IF Remaining(issues, st.res) = <<>> THEN "finish" ELSE "loop"
    /\ UNCHANGED <<disk, original, scan, ret, run, wvars, mvars>>

\* the end of process_file without the test of hook.py 131-132: the buffer
\* is written back whether anything was inserted or not
ProcessFileFinishAlways ==
    /\ pc = "finish"
    /\ pc' = "idle"
    /\ disk' = lines
    /\ ret' = "True"
    /\ UNCHANGED <<original, lines, scan, issues, successful_updates, run, log,
                   reports, wvars, mvars>>

\* hook.py 131-141: write the buffer back if anything was inserted.  A
\* failing write leaves the file as it was (open fails) or empty (the file
\* was truncated by open and the write failed).
ProcessFileFinish ==
    /\ pc = "finish"
    /\ pc' = "idle"
    /\ IF successful_updates = 0
       THEN /\ ret' = "False"
            /\ UNCHANGED <<disk, reports>>
       ELSE \E written \in BOOLEAN :
              IF written
              THEN /\ disk' = lines
                   /\ ret' = "True"
                   /\ UNCHANGED reports
              ELSE /\ disk' \in {disk, <<Blank>>}
                   /\ ret' = "False"
                   /\ reports' = reports + 1
    /\ UNCHANGED <<original, lines, scan, issues, successful_updates, run, log,
                   wvars, mvars>>

Next == ProcessFileStart \/ ProcessIssue \/ ProcessFileFinish

Spec == Init /\ [][Next]_vars

\* ------------------------------- the patch loop for any list of Issues
\* The loop of process_file started on a buffer with any descending list of
\* start lines, lines outside the buffer included (find_doc_issues never
\* returns such a line for the text it was given).
ValidFiles == {f \in Files : ParseOk(f)}

\* strictly descending lists of one or two start lines in 0..n+1
StartLists(n) ==
    {<<a>> : a \in 0..(n + 1)}
    \cup {p \in (0..(n + 1)) \X (0..(n + 1)) : p[1] > p[2]}

InitPatch ==
    /\ disk \in ValidFiles
    /\ original = disk
    /\ lines = disk
    /\ issues \in StartLists(Len(disk))
    /\ scan = [called |-> TRUE, warned |-> FALSE,
               starts |-> {issues[i] : i \in 1..Len(issues)}]
    /\ successful_updates = 0
    /\ pc = "loop"
    /\ ret = "none"
    /\ run = 1
    /\ log = NoLog
    /\ reports = 0
    /\ WrapIdle
    /\ MainIdle

NextPatch == ProcessIssue \/ ProcessFileFinish

SpecPatch == InitPatch /\ [][NextPatch]_vars

\* ------------------------------------- wrap_docstring taken alone
WrapGlyphs == {"a", " ", "NL", ":", "H"}

Texts == UNION {[1..n -> WrapGlyphs] : n \in 0..MaxTextLen}

FileIdle ==
    /\ disk = <<Blank>> /\ original = <<>> /\ lines = <<>> /\ scan = NoScan
    /\ issues = <<>>
    /\ successful_updates = 0 /\ pc = "off" /\ ret = "none" /\ run = 0
    /\ log = NoLog /\ reports = 0

InitWrap ==
    /\ docstring \in Texts
    /\ max_length \in MinWidth..MaxWidth
    /\ groups = <<>>
    /\ wrapped = <<>>
    /\ wpc = "call"
    /\ FileIdle
    /\ MainIdle

\* validator.py 33-105: one call of wrap_docstring; groups keeps, per input
\* line, what the loop appended to wrapped_lines
Wrap ==
    /\ wpc = "call"
    /\ groups' = WrapGroups(SplitLines(docstring), FALSE, max_length)
    /\ wrapped' = wrap_docstring(docstring, max_length)
    /\ wpc' = "done"
    /\ UNCHANGED <<docstring, max_length, fvars, mvars>>

NextWrap == Wrap

SpecWrap == InitWrap /\ [][NextWrap]_vars

\* ------------------- the normalization of process_file taken alone
\* the raw texts a backend can return: the texts of SpecWrap, with triple
\* quotes
RawTexts == UNION {[1..n -> WrapGlyphs \cup {"Q"}] : n \in 0..MaxTextLen}

InitNorm ==
    /\ docstring \in RawTexts
    /\ max_length = LineWidth
    /\ groups = <<>>
    /\ wrapped = <<>>
    /\ wpc = "norm"
    /\ FileIdle
    /\ MainIdle

\* hook.py 99-117: an empty text is skipped; any other is stripped, freed
\* of enclosing quotes, stripped again and wrapped at 72
Normalize ==
    /\ wpc = "norm"
    /\ IF docstring = <<>>
       THEN /\ wpc' = "skipped"
            /\ UNCHANGED <<groups, wrapped>>
       ELSE /\ groups' = WrapGroups(SplitLines(CleanDoc(docstring)), FALSE, LineWidth)
            /\ wrapped' = wrap_docstring(CleanDoc(docstring), LineWidth)
            /\ wpc' = "done"
    /\ UNCHANGED <<docstring, max_length, fvars, mvars>>

NextNorm == Normalize

SpecNorm == InitNorm /\ [][NextNorm]_vars

\* ------------------------------------------------------- hook.py: main
\* What is at a path: nothing ("missing"), a file that cannot be opened for
\* reading ("denied": no permission, a directory), or a file with a text.
Paths == <<"a.py", "b.py">>

MainArgs == {SubSeq(Paths, 1, n) : n \in 0..Len(Paths)}

MainContents == {f \in ValidFiles : Len(f) <= MaxMainLen}

FsEntries ==
    {[st |-> x, text |-> <<>>] : x \in {"missing", "denied"}}
    \cup {[st |-> "file", text |-> f] : f \in MainContents}

\* hook.py 151-158: main has its list of files (its argument, or the staged
\* files); with no file it returns 0 at once
InitMain ==
    /\ todo \in MainArgs
    /\ fs \in [{todo[i] : i \in 1..Len(todo)} -> FsEntries]
    /\ path = ""
    /\ changed = FALSE
    /\ mainret = IF todo = <<>> THEN "0" ELSE "none"
    /\ mpc = IF todo = <<>> THEN "done" ELSE "loop"
    /\ visited = <<>>
    /\ disk = <<Blank>> /\ original = <<>> /\ lines = <<>> /\ scan = NoScan
    /\ issues = <<>> /\ successful_updates = 0 /\ pc = "idle" /\ ret = "none"
    /\ run = 0 /\ log = NoLog /\ reports = 0
    /\ WrapIdle

\* hook.py 159-167: the next file of the list and the existence check.  Only
\* FileNotFoundError is caught: any other failure of open leaves main.
MainOpen ==
    /\ mpc = "loop"
    /\ todo # <<>>
    /\ path' = Head(todo)
    /\ todo' = Tail(todo)
    /\ IF fs[Head(todo)].st = "missing"
       THEN /\ visited' = Append(visited, [path |-> Head(todo), out |-> "notfound"])
            /\ reports' = reports + 1
            /\ UNCHANGED <<mpc, mainret, disk, run, ret, pc>>
       ELSE IF fs[Head(todo)].st = "denied"
       THEN /\ visited' = Append(visited, [path |-> Head(todo), out |-> "raise"])
            /\ mainret' = "raise"
            /\ mpc' = "done"
            /\ UNCHANGED <<reports, disk, run, ret, pc>>
       ELSE /\ mpc' = "call"
            /\ disk' = fs[Head(todo)].text
            /\ run' = 0
            /\ ret' = "none"
            /\ pc' = "idle"
            /\ UNCHANGED <<visited, mainret, reports>>
    /\ UNCHANGED <<original, lines, scan, issues, successful_updates, log,
                   fs, changed, wvars>>

\* hook.py 167: the call of process_file, until it returns
MainCall ==
    /\ mpc = "call"
    /\ ret = "none"
    /\ ProcessFileStart \/ ProcessIssue \/ ProcessFileFinish

\* hook.py 167-169: process_file has returned
MainAfter ==
    /\ mpc = "call"
    /\ ret # "none"
    /\ pc = "idle"
    /\ fs' = [fs EXCEPT ![path].text = disk]
    /\ changed' = (changed \/ ret = "True")
    /\ visited' = Append(visited, [path |-> path, out |-> ret])
    /\ mpc' = "loop"
    /\ UNCHANGED <<fvars, wvars, todo, path, mainret>>

\* hook.py 171-180: the list is through
MainReturn ==
    /\ mpc = "loop"
    /\ todo = <<>>
    /\ mainret' = IF changed THEN "1" ELSE "0"
    /\ mpc' = "done"
    /\ UNCHANGED <<fvars, wvars, todo, fs, path, changed, visited>>

NextMain == MainOpen \/ MainCall \/ MainAfter \/ MainReturn

SpecMain == InitMain /\ [][NextMain]_vars

\* ------------------------------------------------ properties of SpecWrap
\* str.split(): the whitespace-separated words of a text, in order
RECURSIVE Words(_)
Words(t) ==
    LET u == LStrip(t) IN
    IF u = <<>> THEN <<>>
    ELSE LET n == CHOOSE k \in 1..Len(u) :
                      /\ \A j \in 1..k : ~IsSpace(u[j])
                      /\ (k = Len(u) \/ IsSpace(u[k + 1]))
         IN <<SubSeq(u, 1, n)>> \o Words(SubSeq(u, n + 1, Len(u)))

RECURSIVE WordsOfLines(_)
WordsOfLines(ls) == IF ls = <<>> THEN <<>> ELSE Words(Head(ls)) \o WordsOfLines(Tail(ls))

Srcs == SplitLines(docstring)
OutLines == SplitLines(wrapped)

\* some line before line i is a section header
InSectionAt(i) == \E j \in 1..(i - 1) : IsHeader(Strip(Srcs[j]))

\* a structured entry as section 4.3 defines it: a colon after a leading
\* identifier-like token
EntryLike(stripped) ==
    /\ stripped # <<>>
    /\ stripped[1] \in {"a", "H"}
    /\ \E i \in 2..Len(stripped) : stripped[i] = ":"

FirstAndRest(out, first, rest) ==
    /\ out # <<>>
    /\ LeadingSpaces(out[1]) = first
    /\ \A j \in 2..Len(out) : LeadingSpaces(out[j]) = rest

\* C4 as stated: every line of the text wrap_docstring returns is at most
\* max_length wide.
C4_WidthOriginal ==
    wpc = "done" => \A i \in 1..Len(OutLines) : StrLen(OutLines[i]) <= max_length

\* C4 amended: every line of the text wrap_docstring returns is at most
\* max_length wide, unless it is a section header, emitted as it is, or
\* its indentation followed by a single word, which is never broken.
C4_Width ==
    wpc = "done" =>
        /\ wrapped = JoinLines(GroupLines(groups))
        /\ \A i \in 1..Len(groups) : \A j \in 1..Len(groups[i].out) :
              LET l == groups[i].out[j] IN
              \/ StrLen(l) <= max_length
              \/ IsHeader(Strip(groups[i].src)) /\ l = Strip(groups[i].src)
              \/ Len(Words(l)) = 1 /\ LeadingSpaces(l) \in {0, 4, 8}

\* C4 witness: a line wider than max_length was wrapped into several
\* lines that all fit
C4_Witness ==
    /\ wpc = "done"
    /\ \E i \in 1..Len(groups) :
          /\ StrLen(Strip(groups[i].src)) > max_length
          /\ Len(groups[i].out) >= 2
          /\ \A j \in 1..Len(groups[i].out) : StrLen(groups[i].out[j]) <= max_length

\* C5 as stated: headers and plain-text lines get no indent, structured
\* entries under a header 4 spaces, their continuation lines 8.
C5_IndentOriginal ==
    wpc = "done" =>
        /\ Len(groups) = Len(Srcs)
        /\ \A i \in 1..Len(groups) :
              LET t == Strip(Srcs[i])
                  out == groups[i].out
              IN t # <<>> =>
                   IF IsHeader(t) THEN out = <<t>>
                   ELSE IF InSectionAt(i) /\ EntryLike(t) THEN FirstAndRest(out, 4, 8)
                   ELSE FirstAndRest(out, 0, 0)

\* C5 amended: headers, and every line before the first header, get no
\* indent; every non-blank line after the first header that is not a header
\* itself, structured entry or plain text alike, gets 4 spaces and its
\* continuation lines 8.
C5_Indent ==
    wpc = "done" =>
        /\ Len(groups) = Len(Srcs)
        /\ \A i \in 1..Len(groups) :
              LET t == Strip(Srcs[i])
                  out == groups[i].out
              IN t # <<>> =>
                   IF IsHeader(t) THEN out = <<t>>
                   ELSE IF InSectionAt(i) THEN FirstAndRest(out, 4, 8)
                   ELSE FirstAndRest(out, 0, 0)

\* C5 witness: a line under a header was wrapped into an indented first
\* line and a continuation line
C5_Witness ==
    /\ wpc = "done"
    /\ \E i \in 1..Len(groups) :
          /\ InSectionAt(i)
          /\ ~IsHeader(Strip(Srcs[i]))
          /\ Len(groups[i].out) >= 2

\* C6: the lines produced for an input line wider than max_length hold,
\* indentation and line breaks aside, exactly the words of that line in
\* their order.
C6_RoundTrip ==
    wpc = "done" =>
        \A i \in 1..Len(groups) :
            StrLen(Srcs[i]) > max_length =>
                WordsOfLines(groups[i].out) = Words(Srcs[i])

\* C6 witness: an input line of several words, wider than max_length, was
\* broken into several lines
C6_Witness ==
    /\ wpc = "done"
    /\ \E i \in 1..Len(groups) :
          /\ StrLen(Srcs[i]) > max_length
          /\ Len(Words(Srcs[i])) >= 2
          /\ Len(groups[i].out) >= 2

\* ------------------------------------------- properties of process_file
\* the log entries of run r, in the order the Issues were processed
RunLog(r) == SelectSeq(log, LAMBDA e : e.run = r)

\* number of lines inserted, in the run logged as rl, below start line n
RECURSIVE LinesAbove(_, _)
LinesAbove(rl, n) ==
    IF rl = <<>> THEN 0
    ELSE (IF Head(rl).start < n THEN Len(Head(rl).block) ELSE 0)
         + LinesAbove(Tail(rl), n)

\* where the declaration of entry e is (1-based) once the run logged as rl
\* is over
FinalPos(rl, e) == e.start + LinesAbove(rl, e.start)

\* in buf the declaration line of e is immediately followed by e's block
Placed(buf, orig, rl, e) ==
    LET p == FinalPos(rl, e) IN
    /\ p + Len(e.block) <= Len(buf)
    /\ buf[p] = orig[e.start]
    /\ buf[p + 1] = e.block[1]
    /\ SubSeq(buf, p + 1, p + Len(e.block)) = e.block

AllInserted(rl) == \A i \in 1..Len(rl) : rl[i].res = "inserted"

\* C1: once process_file has processed all the Issues of a file, every
\* generation succeeding, the buffer holds each declaration's original line
\* immediately followed by the block generated for that declaration.
C1_OrderStable ==
    (pc = "finish" /\ AllInserted(RunLog(run))) =>
        \A i \in 1..Len(RunLog(run)) :
            Placed(lines, original, RunLog(run), RunLog(run)[i])

\* C1 witness: two declarations of one file have both received a block,
\* the lower one first
C1_Witness ==
    /\ pc = "finish"
    /\ Len(RunLog(run)) >= 2
    /\ RunLog(run)[1].start > RunLog(run)[2].start
    /\ AllInserted(RunLog(run))

\* C2: an insertion at a valid index d returns lines[0..d], then the block,
\* then lines[d+1..]: nothing of the original is dropped, duplicated or
\* reordered, and the result is len(lines) + len(block) long.
C2_Splice ==
    \A i \in 1..Len(log) :
        log[i].res = "inserted" =>
            LET d == log[i].start - 1
                b == log[i].block
                old == log[i].before
                new == log[i].after
            IN /\ ValidIndex(old, d)
               /\ Len(new) = Len(old) + Len(b)
               /\ SubSeq(new, 1, d + 1) = SubSeq(old, 1, d + 1)
               /\ SubSeq(new, d + 2, d + 1 + Len(b)) = b
               /\ SubSeq(new, d + 2 + Len(b), Len(new)) = SubSeq(old, d + 2, Len(old))

\* C2 witness: a block was inserted after a line that is neither the first
\* nor the last line of the buffer
C2_Witness ==
    \E i \in 1..Len(log) :
        /\ log[i].res = "inserted"
        /\ log[i].start > 1
        /\ log[i].start < Len(log[i].before)
        /\ Len(log[i].block) >= 4

\* the backend answered every request with the same text
FixedBackend ==
    \A i, j \in 1..Len(log) :
        /\ ~log[i].genfail
        /\ log[i].doc = log[j].doc

\* the second run reads what the first run wrote
SecondRunOnFirstResult ==
    /\ run = 2
    /\ scan.called
    /\ RunLog(1) # <<>>
    /\ original = RunLog(1)[Len(RunLog(1))].after

\* C3: with a backend that returns one fixed text, a second run of the
\* pipeline on the file the first run wrote is not handed, and does not
\* patch, any declaration that received a block in the first run.
C3_Idempotent ==
    (SecondRunOnFirstResult /\ FixedBackend) =>
        \A i \in 1..Len(RunLog(1)) :
            RunLog(1)[i].res = "inserted" =>
                /\ FinalPos(RunLog(1), RunLog(1)[i]) \notin scan.starts
                /\ \A j \in 1..Len(RunLog(2)) :
                      RunLog(2)[j].start # FinalPos(RunLog(1), RunLog(1)[i])

\* the declarations of a file that parses, and those among them whose
\* body does not start with a documentation string
IsDecl(ln) == ln.k \in {"def", "defstr", "defcomma"}

HeaderEnd(file, i) ==
    IF file[i].k = "def" THEN i
    ELSE CHOOSE j \in (i + 1)..Len(file) :
             /\ file[j].k = "sigend"
             /\ \A m \in (i + 1)..(j - 1) : file[m].k # "sigend"

FirstBodyLine(file, i) ==
    CHOOSE j \in (HeaderEnd(file, i) + 1)..Len(file) :
        /\ file[j].k # "blank"
        /\ \A m \in (HeaderEnd(file, i) + 1)..(j - 1) : file[m].k = "blank"

ExpectedIssues(file) ==
    {i \in 1..Len(file) :
        IsDecl(file[i]) /\ file[FirstBodyLine(file, i)].k # "q3"}

\* the start lines of the Issues of this run: those processed, then those
\* still to process
RunStarts ==
    [i \in 1..Len(RunLog(run)) |-> RunLog(run)[i].start] \o issues

\* C7: for a file that parses, the scanner returns exactly one Issue for
\* each declaration, nested or not, whose body does not start with a
\* documentation string, at that declaration's line, and none for a
\* declaration that has one.
C7_Scanner ==
    (scan.called /\ ParseOk(original) /\ pc \in {"loop", "finish", "idle"}) =>
        /\ ~scan.warned
        /\ scan.starts = ExpectedIssues(original)
        /\ pc = "loop" =>
              /\ {RunStarts[i] : i \in 1..Len(RunStarts)} = scan.starts
              /\ Len(RunStarts) = Cardinality(scan.starts)

\* C7 witness: a file with a declaration that is reported and a nested
\* declaration that has a documentation string and is not reported
C7_Witness ==
    /\ scan.called
    /\ ParseOk(original)
    /\ pc = "loop"
    /\ scan.starts # {}
    /\ \E i \in 1..Len(original) :
          IsDecl(original[i]) /\ original[i].ind > 0 /\ i \notin scan.starts

\* C8: when the text read does not parse, find_doc_issues reports it and
\* returns no Issue, and process_file inserts nothing, leaves the file as
\* it is and returns False.
C8_ParseFailure ==
    [][(run' = run + 1 /\ scan'.called /\ ~ParseOk(disk)) =>
          /\ scan'.warned
          /\ scan'.starts = {}
          /\ reports' = reports + 1
          /\ lines' = disk
          /\ disk' = disk
          /\ log' = log
          /\ ret' = "False"
          /\ pc' = "idle"]_vars

\* C8 witness: process_file returned False on a file that does not parse
C8_Witness ==
    /\ scan.called
    /\ scan.warned
    /\ ~ParseOk(original)
    /\ pc = "idle"
    /\ ret = "False"
    /\ disk = original

\* C9: when the declaration line is not a valid index of the buffer, the
\* insertion fails; the Orchestrator reports it, leaves the buffer as it
\* was and goes on with the remaining Issues.
C9_OutOfRange ==
    [][(/\ pc = "loop"
        /\ issues # <<>>
        /\ ~ValidIndex(lines, Head(issues) - 1)
        /\ log' # log) =>
          /\ \A t \in RawDocs :
                ~insert_docstring(lines, Head(issues) - 1, CleanDoc(t)).ok
          /\ log'[Len(log')].res # "inserted"
          /\ ~log'[Len(log')].genfail => log'[Len(log')].res = "failed"
          /\ lines' = lines
          /\ reports' = reports + 1
          /\ successful_updates' = successful_updates
          /\ issues' = Tail(issues)
          /\ pc' = IF Tail(issues) = <<>> THEN "finish" ELSE "loop"]_vars

\* C9 witness: an Issue whose line is outside the buffer failed, and a
\* later Issue of the same file received its block
C9_Witness ==
    \E i, j \in 1..Len(log) :
        /\ i < j
        /\ ~ValidIndex(log[i].before, log[i].start - 1)
        /\ log[i].res = "failed"
        /\ log[j].res = "inserted"

\* C10: an Issue whose generation fails (nothing usable returned, or an
\* exception) leaves the buffer as it was; every other Issue of the file is
\* still attempted, and one whose generation succeeds has its block right
\* after its own declaration.
C10_FailureLocal ==
    /\ \A i \in 1..Len(log) :
          IF log[i].genfail
          THEN log[i].res # "inserted" /\ log[i].after = log[i].before
          ELSE log[i].res = "inserted"
    /\ pc = "finish" =>
          /\ Len(RunLog(run)) = Cardinality(scan.starts)
          /\ \A i \in 1..Len(RunLog(run)) :
                RunLog(run)[i].res = "inserted" =>
                    Placed(lines, original, RunLog(run), RunLog(run)[i])

\* C10 witness: of two Issues of one file the first processed failed to
\* generate and the other then received its block
C10_Witness ==
    /\ pc = "finish"
    /\ Len(RunLog(run)) = 2
    /\ RunLog(run)[1].genfail
    /\ RunLog(run)[1].after = RunLog(run)[1].before
    /\ RunLog(run)[2].res = "inserted"

\* ------------------------------------------------------ properties of main
\* process_file returned True for some file of the list
SomeFileModified == \E i \in 1..Len(visited) : visited[i].out = "True"

\* some Issue of some file did not get its block
SomeDeclarationFailed == \E i \in 1..Len(log) : log[i].res # "inserted"

\* C11: when main returns, it returns a non-zero value if a file was
\* modified or a declaration failed, and zero only when no file was modified
\* and no declaration failed.
C11_CompletionSignal ==
    (mpc = "done" /\ mainret \in {"0", "1"}) =>
        (mainret = "1" <=> (SomeFileModified \/ SomeDeclarationFailed))

\* -------------------------------- properties of extract_function_signature
\* the window w is the slice of buf that starts at line s (1-based), runs to
\* the first line at or after s, among 5 lines at most, that ends with the
\* colon, and goes on with 1 or 2 body lines, fewer only at the end of buf
WindowAsSpecified(buf, s, w) ==
    /\ w # <<>>
    /\ s + Len(w) - 1 <= Len(buf)
    /\ w = SubSeq(buf, s, s + Len(w) - 1)
    /\ \E e \in s..(s + 4) :
          /\ e <= Len(buf)
          /\ EndsSignature(buf[e])
          /\ \A m \in s..(e - 1) : ~EndsSignature(buf[m])
          /\ \E b \in 0..2 :
                /\ Len(w) = (e - s + 1) + b
                /\ b = 0 => e = Len(buf)

\* C12: for every declaration line handed to it, extract returns the
\* signature lines up to the first line ending with the colon, followed by
\* at most 2 body lines: a header that ends on its first line yields that
\* line and 1 or 2 body lines.
C12_Window ==
    \A i \in 1..Len(log) :
        (ValidIndex(log[i].before, log[i].start - 1)
            /\ IsDecl(log[i].before[log[i].start])) =>
                WindowAsSpecified(log[i].before, log[i].start, log[i].ctx)

\* ------------------------------------------- order of the insert calls
\* C13: within one process_file call the insert calls have strictly
\* decreasing declaration lines, whatever the order in which the scanner
\* handed over the Issues.
C13_Descending ==
    \A i, j \in 1..Len(log) :
        (/\ i < j
         /\ log[i].run = log[j].run
         /\ log[i].res = "inserted"
         /\ log[j].res = "inserted") => log[i].start > log[j].start

\* C13 witness: one call has made two insertions, one right after the other
C13_Witness ==
    \E i \in 1..Len(log) :
        /\ i + 1 <= Len(log)
        /\ log[i].run = log[i + 1].run
        /\ log[i].res = "inserted"
        /\ log[i + 1].res = "inserted"
        /\ log[i + 1].before = log[i].after

\* ------------------------------------------ properties of SpecNorm
IsBlankLine(l) == Strip(l) = <<>>

\* a sequence of lines without its leading and its trailing blank lines
RECURSIVE DropBlankEnds(_)
DropBlankEnds(ls) ==
    IF ls = <<>> THEN <<>>
    ELSE IF IsBlankLine(Head(ls)) THEN DropBlankEnds(Tail(ls))
    ELSE IF IsBlankLine(ls[Len(ls)]) THEN DropBlankEnds(SubSeq(ls, 1, Len(ls) - 1))
    ELSE ls

HasQuotes(t) == \E i \in 1..Len(t) : t[i] = "Q"

C15_IOPerFile ==
    mpc = "done" =>
        /\ mainret \in {"0", "1"}
        /\ todo = <<>>
        /\ Len(visited) = Cardinality(DOMAIN fs)
        /\ \A i \in 1..Len(visited) : visited[i].out # "raise"

\* --------------------------------------------- shape of an inserted block
\* C16: every non-empty line of an inserted block starts with the leading
\* whitespace of the declaration line plus 4 spaces; the block is the open
\* delimiter, one line per line of the text, the close delimiter and exactly
\* one blank line.
C16_BlockIndent ==
    \A i \in 1..Len(log) :
        log[i].res = "inserted" =>
            LET b == log[i].block
                dl == SplitLines(log[i].doc)
                base == LineIndent(log[i].before[log[i].start]) + 4
            IN /\ Len(b) = Len(dl) + 3
               /\ b[1] = CodeLine("q3", base)
               /\ b[Len(b) - 1] = CodeLine("q3", base)
               /\ b[Len(b)] = Blank
               /\ \A j \in 1..Len(dl) :
                     IF IsBlankLine(dl[j]) THEN b[j + 1] = Blank
                     ELSE b[j + 1] = TextLine(base, dl[j])
               /\ \A j \in 1..Len(b) : b[j] # Blank => b[j].ind = base

\* C16 witness: a declaration indented by 4 received a block at 8 whose
\* text has a blank line in it
C16_Witness ==
    \E i \in 1..Len(log) :
        /\ log[i].res = "inserted"
        /\ LineIndent(log[i].before[log[i].start]) = 4
        /\ log[i].block[1] = CodeLine("q3", 8)
        /\ \E j \in 2..(Len(log[i].block) - 2) : log[i].block[j] = Blank

\* ------------------------------------------------------ prefix stability
\* C17: at the start of every iteration of the loop, for the Issue about to
\* be processed with start line s, the first s lines of the buffer are the
\* first s lines of the text that was read.
C17_PrefixStable ==
    (pc = "loop" /\ issues # <<>>) =>
        /\ Head(issues) >= 1
        /\ Head(issues) <= Len(lines)
        /\ Head(issues) <= Len(original)
        /\ SubSeq(lines, 1, Head(issues)) = SubSeq(original, 1, Head(issues))

\* C17 witness: an iteration starts on a buffer that an earlier iteration
\* of the same call has made longer
C17_Witness ==
    /\ pc = "loop"
    /\ issues # <<>>
    /\ Len(lines) > Len(original)

\* ------------------------------------- no write without an insertion
\* C18: process_file writes the file, and returns True, only after at least
\* one block was inserted; when no block was inserted (no Issue, or every
\* Issue failed) the file is left as it was and process_file returns False;
\* and when main returns, it returns 1 exactly when some process_file call
\* returned True.
C18_NoWriteWithoutInsert ==
    [][/\ (mpc = "call" /\ log' # log) =>
             successful_updates' = successful_updates +
                 (IF log'[Len(log')].res = "inserted" THEN 1 ELSE 0)
       /\ (mpc = "call" /\ disk' # disk) =>
             /\ pc = "finish"
             /\ successful_updates >= 1
             /\ \E i \in 1..Len(log) : log[i].res = "inserted"
       /\ (mpc = "call" /\ ret = "none" /\ ret' = "True") =>
             /\ successful_updates >= 1
             /\ disk' = lines
       /\ (mpc = "call" /\ ret = "none" /\ ret' # "none"
              /\ (pc = "idle" \/ successful_updates = 0)) =>
             /\ ret' = "False"
             /\ disk' = fs[path].text
       /\ (mpc # "done" /\ mpc' = "done" /\ mainret' \in {"0", "1"}) =>
             (mainret' = "1" <=> SomeFileModified)]_vars

\* C18 witness: main returned 1 after one file, whose only Issue failed,
\* was left as it was and another file was written
C18_Witness ==
    /\ mpc = "done"
    /\ mainret = "1"
    /\ Len(visited) = 2
    /\ visited[1].out = "False"
    /\ visited[2].out = "True"
    /\ Len(log) = 2
    /\ log[1].res # "inserted"
    /\ fs[visited[1].path].text = log[1].before
    /\ fs[visited[2].path].text = log[2].after

\* ------------------------------------------------ the in_section flag
\* a header word immediately followed by the colon, and nothing else
StrictHeader(l) == l = <<"H", ":">>

\* what counts as a header: word and colon only, or the pattern of
\* validator.py
HeaderAs(strict, l) == IF strict THEN StrictHeader(l) ELSE IsHeader(l)

\* the flag each input line is formatted under, given what counts as a
\* header: FALSE up to and including the first header, TRUE after it
StickyFlags(strict) ==
    [i \in 1..Len(Srcs) |-> \E j \in 1..(i - 1) : HeaderAs(strict, Strip(Srcs[j]))]

\* the lines emitted for each non-blank, non-header input line start with
\* 0 spaces under a FALSE flag, and with 4 spaces, then 8, under a TRUE one
IndentFollows(strict) ==
    \A i \in 1..Len(Srcs) :
        (Strip(Srcs[i]) # <<>> /\ ~HeaderAs(strict, Strip(Srcs[i]))) =>
            IF StickyFlags(strict)[i] THEN FirstAndRest(groups[i].out, 4, 8)
            ELSE FirstAndRest(groups[i].out, 0, 0)

\* C19 as stated: the flag becomes TRUE at the first line that is exactly a
\* header word followed by a colon, and the indentation follows it.
C19_StickyOriginal ==
    wpc = "done" =>
        /\ Len(groups) = Len(Srcs)
        /\ \A i \in 1..Len(groups) : groups[i].sec = StickyFlags(TRUE)[i]
        /\ IndentFollows(TRUE)

\* C19 amended: the flag starts FALSE, becomes TRUE after the first line
\* that, without its surrounding whitespace, is a header word, optional
\* blanks and a colon, and is never reset; every non-blank, non-header line
\* before that line starts with 0 spaces, every one after it with 4 spaces
\* and its continuation lines with 8.
C19_Sticky ==
    wpc = "done" =>
        /\ Len(groups) = Len(Srcs)
        /\ groups # <<>> => ~groups[1].sec
        /\ \A i \in 1..Len(groups) : groups[i].sec = StickyFlags(FALSE)[i]
        /\ \A i, j \in 1..Len(groups) : (i < j /\ groups[i].sec) => groups[j].sec
        /\ IndentFollows(FALSE)

\* C19 witness: a line of plain text that follows a header and a blank line
\* was emitted with 4 spaces
C19_Witness ==
    /\ wpc = "done"
    /\ \E i \in 3..Len(groups) :
          /\ IsHeader(Strip(Srcs[i - 2]))
          /\ Strip(Srcs[i - 1]) = <<>>
          /\ Strip(Srcs[i]) # <<>>
          /\ ~EntryLike(Strip(Srcs[i]))
          /\ ~IsHeader(Strip(Srcs[i]))
          /\ groups[i].sec
          /\ LeadingSpaces(groups[i].out[1]) = 4

====
